---- MODULE Spec2Model ----
(***************************************************************************)
(* Lesson / course progression orchestrator of reachy_teacher:            *)
(*   course_graph.py  (build_course_graph, a course of several lessons)   *)
(*   teach_graph.py   (build_teach_graph, one lesson)                     *)
(*   agents/progression_agent.py (the advance / repeat gate)              *)
(*   db.py            (the sessions and lessons tables)                   *)
(* The graph nodes are the actions; the run state (GraphState) and the    *)
(* two tables are the variables.  The language-model calls (planner, quiz *)
(* generator, graders) and the tutor's microphone are inputs drawn from   *)
(* small sets.                                                            *)
(***************************************************************************)
EXTENDS Integers, Sequences, FiniteSets, TLC

VARIABLES
    \* ---- the run (one app.invoke of a compiled graph) ----
    graph,                  \* "course" | "teach": which graph the process runs
    pc,                     \* the node to execute next, "END" or "error"
    error,                  \* message of the exception that ended the run
    runs,                   \* number of runs started so far against the store
    \* ---- GraphState ----
    student_id,             \* "" when absent or empty
    lesson_id,              \* "" when absent
    lesson_plan_json,       \* <<>> when absent, else <<plan>>
    session_id,             \* <<>> when absent, else <<id>>
    segment_index,
    transcript,
    score,                  \* <<>> is None, else <<n>>
    score_max,              \* <<>> is None, else <<n>>
    attempt_number,         \* <<>> is None, else <<n>>
    quiz,
    student_answers,
    quiz_result,            \* <<>> is None, else <<result>>
    done,
    progression_decision,   \* <<>> when absent, else <<ProgressionDecision>>
    lesson_summary,         \* <<>> when absent
    current_lesson_index,
    course_lesson_files,    \* the course's lesson files, by number
    course_completed,
    \* ---- the store (db.py) ----
    sessions,               \* rows of table "sessions", in insertion order
    lessons,                \* rows of table "lessons", in insertion order
    \* ---- concurrent starts: processes inside ensure_session ----
    procs,
    \* ---- the progression gate called on its own ----
    gate_in,
    gate_out,
    \* ---- the tutor's feedback ----
    rating,                 \* what grade_single_answer returned last, "" before
    \* ---- one call of ReachyMiniRobot.say and its animation thread ----
    speech

runVars == <<graph, pc, error, runs>>
stateVars == <<student_id, lesson_id, lesson_plan_json, session_id, segment_index,
               transcript, score, score_max, attempt_number, quiz, student_answers,
               quiz_result, done, progression_decision, lesson_summary,
               current_lesson_index, course_lesson_files, course_completed>>
storeVars == <<sessions, lessons>>
gateVars == <<gate_in, gate_out>>
robotVars == <<rating, speech>>
vars == <<runVars, stateVars, storeVars, procs, gateVars, robotVars>>

----------------------------------------------------------------------------
(* Bounds of the model *)

MaxSegments == 2        \* a lesson plan has 1..MaxSegments segments
MaxLessons == 2         \* a course has 0..MaxLessons lesson files
MaxAttempts == 2        \* attempts of one lesson explored in one run
MaxRuns == 2            \* runs started against one store
MaxResumeLessons == 1   \* a course is run again when it has at most this many lessons
MaxEmptyAnswers == 1   \* empty answers recorded in the transcripts
MaxGateScore == 50      \* scores given to the gate on its own
NumProcs == 2           \* processes starting concurrently
MaxDuration == 3        \* length of the spoken audio, in move intervals

Students == {"s1"}
LessonIds == {"l1", "l2"}
ConcStudents == {"s1", "s2"}      \* students of the concurrently started runs
GateThresholds == {58, 60, 100}   \* passing_threshold values given to the gate

None == <<>>
Some(v) == <<v>>
Val(o) == o[1]

----------------------------------------------------------------------------
(* Python float arithmetic (IEEE-754 binary64, round to nearest, ties to   *)
(* even) for  score / score_max * 100.  A non-negative float is           *)
(* [m |-> bits, e |-> k]: the integer with binary digits m (most          *)
(* significant first, at most Precision of them) times 2^k.               *)

Precision == 53

RECURSIVE NatBits(_)
NatBits(n) == IF n = 0 THEN <<>> ELSE Append(NatBits(n \div 2), n % 2)

RECURSIVE BitsNat(_)
BitsNat(b) ==
    IF b = <<>> THEN 0 ELSE 2 * BitsNat(SubSeq(b, 1, Len(b) - 1)) + b[Len(b)]

\* n as a digit sequence of length len (n < 2^len)
PadBits(n, len) ==
    LET b == NatBits(n)
    IN [i \in 1..len |-> IF i <= len - Len(b) THEN 0 ELSE b[i - (len - Len(b))]]

\* the digits of b + 1: the last 0 becomes 1 and the 1s after it 0
IncBits(b) ==
    LET zeros == { i \in 1..Len(b) : b[i] = 0 }
    IN IF zeros = {} THEN <<1>> \o [i \in 1..Len(b) |-> 0]
       ELSE LET j == CHOOSE i \in zeros : \A z \in zeros : z <= i
            IN [i \in 1..Len(b) |-> IF i < j THEN b[i] ELSE IF i = j THEN 1 ELSE 0]

FloatZero == [m |-> <<>>, e |-> 0]

\* The kept digits, rounded up or not; a carry out of the top digit
\* renormalises.
RoundBits(bits, e, up) ==
    LET r == IF up THEN IncBits(bits) ELSE bits
    IN IF Len(r) > Precision
       THEN [m |-> SubSeq(r, 1, Precision), e |-> e + 1]
       ELSE [m |-> r, e |-> e]

\* Long division: quotient digits, up to 12 at a time, until Precision
\* significant digits are out, then rounding on the remainder.  The division
\* ends at the last 1 when it comes out even.
RECURSIVE LongDivide(_, _, _, _)
LongDivide(bits, r, d, k) ==
    IF Len(bits) = Precision
    THEN RoundBits(bits, -k, 2 * r > d \/ (2 * r = d /\ bits[Precision] = 1))
    ELSE IF r = 0
    THEN [m |-> bits, e |-> -k]
    ELSE LET room == Precision - Len(bits)
             g == IF room < 12 THEN room ELSE 12
             q == (r * (2 ^ g)) \div d
             nr == (r * (2 ^ g)) % d
             even == IF nr # 0 THEN 0
                     ELSE CHOOSE t \in 0..g :
                            /\ q % (2 ^ t) = 0
                            /\ \A u \in (t + 1)..g : q % (2 ^ u) # 0
             digits == IF bits = <<>> THEN NatBits(q \div (2 ^ even))
                       ELSE PadBits(q \div (2 ^ even), g - even)
         IN LongDivide(bits \o digits, nr, d, k + g - even)

\* n / d for integers n >= 0, d > 0
FloatDiv(n, d) ==
    IF n = 0 THEN FloatZero ELSE LongDivide(NatBits(n \div d), n % d, d, 0)

\* digits of (bits * c + carry), 12 digits at a time from the last
RECURSIVE MulBits(_, _, _)
MulBits(bits, c, carry) ==
    IF bits = <<>> THEN NatBits(carry)
    ELSE LET n == IF Len(bits) < 12 THEN Len(bits) ELSE 12
             low == SubSeq(bits, Len(bits) - n + 1, Len(bits))
             v == BitsNat(low) * c + carry
         IN MulBits(SubSeq(bits, 1, Len(bits) - n), c, v \div (2 ^ n))
              \o PadBits(v % (2 ^ n), n)

\* x * c for a float x >= 0 and an integer c > 0
FloatMul(x, c) ==
    IF x.m = <<>> THEN FloatZero
    ELSE LET p == MulBits(x.m, c, 0)
             n == Len(p)
         IN IF n <= Precision THEN [m |-> p, e |-> x.e]
            ELSE LET kept == SubSeq(p, 1, Precision)
                     guard == p[Precision + 1]
                     sticky == \E i \in (Precision + 2)..n : p[i] = 1
                 IN RoundBits(kept, x.e + (n - Precision),
                              guard = 1 /\ (sticky \/ kept[Precision] = 1))

\* integer part of a float x >= 0
FloatFloor(x) ==
    IF x.m = <<>> THEN 0
    ELSE IF x.e >= 0 THEN BitsNat(x.m) * (2 ^ x.e)
    ELSE IF Len(x.m) + x.e <= 0 THEN 0
    ELSE BitsNat(SubSeq(x.m, 1, Len(x.m) + x.e))

\* whether a float x >= 0 has a non-zero fractional part
FloatHasFrac(x) ==
    /\ x.m # <<>>
    /\ x.e < 0
    /\ \E i \in 1..Len(x.m) : i > Len(x.m) + x.e /\ x.m[i] = 1

\* x >= t, for a float x >= 0 and an integer t
FloatGeq(x, t) == FloatFloor(x) >= t

\* the binary digits of the fractional part of a float x >= 0, the halves
\* digit first
FloatFracBits(x) ==
    IF x.m = <<>> \/ x.e >= 0 THEN <<>>
    ELSE IF Len(x.m) + x.e <= 0
    THEN [i \in 1..(-x.e) |-> IF i <= -(Len(x.m) + x.e) THEN 0
                              ELSE x.m[i + Len(x.m) + x.e]]
    ELSE SubSeq(x.m, Len(x.m) + x.e + 1, Len(x.m))

\* round(x, 1) of a float x >= 0, in tenths: the decimal with one digit
\* nearest to the value of x, the even one of two equally near; the float
\* returned is the one nearest to that decimal
Round1(x) ==
    LET f == FloatFracBits(x)
        p == MulBits(f, 10, 0)
        digit == BitsNat(SubSeq(p, 1, Len(p) - Len(f)))
        rest == SubSeq(p, Len(p) - Len(f) + 1, Len(p))
        down == FloatFloor(x) * 10 + digit
        more == \E i \in 2..Len(rest) : rest[i] = 1
        up == /\ rest # <<>>
              /\ rest[1] = 1
              /\ (more \/ down % 2 = 1)
    IN down + (IF up THEN 1 ELSE 0)

\* round(x, 1) by cutting the digits after the first
Round1Down(x) ==
    LET f == FloatFracBits(x)
        p == MulBits(f, 10, 0)
    IN FloatFloor(x) * 10 + BitsNat(SubSeq(p, 1, Len(p) - Len(f)))

----------------------------------------------------------------------------
(* agents/progression_agent.py *)

\* score_percentage = (score / score_max * 100) if score_max > 0 else 0:
\* the magnitude of the percentage of |score|
ScorePercentageFullOnZero(s, smax) ==
    IF smax > 0
    THEN FloatMul(FloatDiv(IF s < 0 THEN -s ELSE s, smax), 100)
    ELSE FloatMul(FloatDiv(1, 1), 100)

ScorePercentage(s, smax) ==
    IF smax > 0
    THEN FloatMul(FloatDiv(IF s < 0 THEN -s ELSE s, smax), 100)
    ELSE FloatZero

\* score_percentage >= passing_threshold; a negative score gives the
\* negated magnitude
PercentageGeq(s, smax, threshold) ==
    LET p == ScorePercentage(s, smax)
    IN IF s >= 0 \/ p.m = <<>>
       THEN FloatGeq(p, threshold)
       ELSE \/ FloatFloor(p) < -threshold
            \/ (FloatFloor(p) = -threshold /\ ~FloatHasFrac(p))

DecisionStrict(s, smax, threshold) ==
    LET p == ScorePercentage(s, smax)
    IN IF s >= 0 /\ (\/ FloatFloor(p) > threshold
                     \/ (FloatFloor(p) = threshold /\ FloatHasFrac(p)))
       THEN "advance" ELSE "repeat"

DecisionAdvance(s, smax, threshold) == "advance"

\* decision = "advance" if score_percentage >= passing_threshold else "repeat"
Decision(s, smax, threshold) ==
    IF PercentageGeq(s, smax, threshold) THEN "advance" ELSE "repeat"

\* passing_threshold=60.0, as both graphs call evaluate_progression
PassingThreshold == 60

\* what the analyzer model replies: reasoning (a required field of
\* ProgressionAnalysis) present or not, and possibly a key "decision" that
\* ProgressionAnalysis does not have
AnalyzerReplies ==
    { [reasoning |-> r, decision |-> d] :
        r \in {None, Some("r1")},
        d \in {None, Some("advance"), Some("repeat")} }

\* ProgressionAnalysis.model_validate_json: a ValidationError without the
\* required fields; keys the class does not have are ignored
ProgressionAnalysisValid(reply) == reply.reasoning # None

ProgressionDecisionOverride(decision, reply) ==
    [decision |-> IF reply.decision # None THEN Val(reply.decision) ELSE decision,
     reasoning |-> Val(reply.reasoning)]

\* ProgressionDecision(decision=decision, reasoning=analysis.reasoning, ..)
ProgressionDecision(decision, reply) ==
    [decision |-> decision, reasoning |-> Val(reply.reasoning)]

----------------------------------------------------------------------------
(* The store: db.py *)

\* a row of table "sessions"
SessionRow(id, sid, lid, seg, tr, sc, scmax) ==
    [id |-> id, student_id |-> sid, lesson_id |-> lid, segment_index |-> seg,
     transcript_json |-> tr, score |-> sc, score_max |-> scmax]

\* a row of table "lessons"
LessonRow(plan) == [id |-> plan.lesson_id, plan_json |-> plan]

\* a LessonPlan the planner returns
LessonPlan(lid, n) == [lesson_id |-> lid, segments |-> n]

Min(S) == CHOOSE x \in S : \A y \in S : x <= y

\* select(Session).where(student_id == .., lesson_id == ..).scalars().first()
SelectSession(rows, sid, lid) ==
    LET hits == { i \in 1..Len(rows) :
                    rows[i].student_id = sid /\ rows[i].lesson_id = lid }
    IN IF hits = {} THEN None ELSE Some(rows[Min(hits)])

\* db.get(Session, id): the position of the row with that primary key, or 0
SessionIndex(rows, id) ==
    LET hits == { i \in 1..Len(rows) : Some(rows[i].id) = id }
    IN IF hits = {} THEN 0 ELSE Min(hits)

\* id=str(uuid.uuid4()): an id no row has
NewSessionId(rows) == Len(rows) + 1

NewSessionDirty(rows, sid, lid) ==
    SessionRow(NewSessionId(rows), sid, lid, 1, <<>>, None, None)

\* Session(id=.., segment_index=0, transcript_json="[]", score=None, score_max=None)
NewSession(rows, sid, lid) ==
    SessionRow(NewSessionId(rows), sid, lid, 0, <<>>, None, None)

\* db.merge(Lesson(id=.., ..)): update the row with that id, or insert one
MergeLesson(rows, plan) ==
    IF \E i \in 1..Len(rows) : rows[i].id = plan.lesson_id
    THEN [i \in 1..Len(rows) |->
            IF rows[i].id = plan.lesson_id THEN LessonRow(plan) ELSE rows[i]]
    ELSE Append(rows, LessonRow(plan))

\* rows of one (student_id, lesson_id)
SessionsOf(rows, sid, lid) ==
    { i \in 1..Len(rows) : rows[i].student_id = sid /\ rows[i].lesson_id = lid }

----------------------------------------------------------------------------
(* Transcript events.  Every event is [role, text, n]: the role, its text   *)
(* (script, answer, question, decision) and its number (segment, attempt).  *)

Event(role, text, n) == [role |-> role, text |-> text, n |-> n]

\* what the student says or types: "" is an empty or whitespace-only answer
Answers == {"", "a"}

\* the five questions of QuizOut (min_length=5, max_length=5)
QuizSize == 5
QuizOutputs == { <<"q1", "q2", "q3", "q4", "q5">> }

\* the question lists the quiz model may reply with
QuizReplies ==
    QuizOutputs \cup { <<"q1", "q2", "q3", "q4">>,
                       <<"q1", "q2", "q3", "q4", "q5", "q6">> }

QuizOutValidAny(qs) == TRUE

\* QuizOut.model_validate_json: exactly five questions, or a ValidationError
QuizOutValid(qs) == Len(qs) = QuizSize

\* what the student answers to the questions, in the order they are asked
QuizAnswers ==
    { <<"a1", "a2", "a3", "a4", "a5", "a6">>,
      <<"a1", "", "a3", "a4", "a5", "a6">> }

\* student_answers after the loop: one answer appended per question
CollectedAnswers(qs, said) == SubSeq(said, 1, Len(qs))

\* a QuizResult (state.py): the fields the graphs read; the reply's
\* per_question list is not read by either graph
QuizResult(total, max) == [total_score |-> total, max_score |-> max]

\* what grade_quiz returns: GradeOut.model_validate_json(resp.content), any
\* total_score and max_score the grading model replies with
GradeResults ==
    { QuizResult(4, 10), QuizResult(6, 10), QuizResult(11, 10), QuizResult(0, 0) }

QuizRole == IF graph = "course" THEN "quiz" ELSE "quiz_agent"
ProgressionRole == IF graph = "course" THEN "progression" ELSE "progression_agent"

\* {"role": "quiz..", "question": q}, {"role": "student", "text": ans} per question
RECURSIVE QuizEvents(_, _, _)
QuizEvents(role, qs, answers) ==
    IF qs = <<>> THEN <<>>
    ELSE <<Event(role, Head(qs), 0), Event("student", Head(answers), 0)>>
         \o QuizEvents(role, Tail(qs), Tail(answers))

\* the empty answers a transcript records
EmptyAnswers(tr) ==
    Cardinality({ i \in 1..Len(tr) : tr[i].role = "student" /\ tr[i].text = "" })

\* empty answers recorded once the run's transcript is tr: those of tr and
\* those of the rows of other sessions
RECURSIVE StoredEmptyAnswers(_)
StoredEmptyAnswers(rows) ==
    IF rows = <<>> THEN 0
    ELSE (IF Some(Head(rows).id) = session_id THEN 0
          ELSE EmptyAnswers(Head(rows).transcript_json))
         + StoredEmptyAnswers(Tail(rows))

WithinAnswerBound(tr) ==
    EmptyAnswers(tr) + StoredEmptyAnswers(sessions) <= MaxEmptyAnswers

\* the student_answer arguments of the grade_single_answer calls made while
\* the events tr were appended: teach and quiz call it once per answer,
\* with the text the student event then records
GradeSingleAnswerCalls(tr) ==
    { tr[i].text : i \in { j \in 1..Len(tr) : tr[j].role = "student" } }

\* what the real-time grading call comes to: llm.invoke raises, the reply is
\* not JSON, or it is a JSON object with or without a key "rating"
RealtimeReplies ==
    { [call |-> "raises", rating |-> None],
      [call |-> "not_json", rating |-> None] } \cup
    { [call |-> "json", rating |-> r] :
        r \in {None, Some("correct"), Some("close"), Some("wrong"), Some("great")} }

\* the real-time grading call of the runs in which the rating is not looked at
UsualReplies == { [call |-> "json", rating |-> Some("correct")] }

Ratings == {"correct", "close", "wrong"}

\* grade_single_answer
GradeSingleAnswerRaw(reply) ==
    IF reply.call # "json" THEN "close"
    ELSE IF reply.rating = None THEN "wrong" ELSE Val(reply.rating)

GradeSingleAnswer(reply) ==
    IF reply.call # "json" THEN "close"
    ELSE LET found == IF reply.rating = None THEN "wrong" ELSE Val(reply.rating)
         IN IF found \notin Ratings THEN "wrong" ELSE found

\* seg.script of segment i
Script(i) == <<"script0", "script1", "script2", "script3">>[i + 1]

IsPrefix(a, b) == Len(a) <= Len(b) /\ SubSeq(b, 1, Len(a)) = a

----------------------------------------------------------------------------
(* A run: app.invoke(input) of build_course_graph() or build_teach_graph() *)

EntryPoint(g) == IF g = "course" THEN "plan_lesson" ELSE "load_lesson"

\* the run state as app.invoke receives it: main() passes student_id (and,
\* for a course, the lesson files and current_lesson_index 0); every other
\* key is absent
FreshState(sid, files) ==
    /\ student_id = sid
    /\ lesson_id = ""
    /\ lesson_plan_json = None
    /\ session_id = None
    /\ segment_index = 0
    /\ transcript = <<>>
    /\ score = None
    /\ score_max = None
    /\ attempt_number = None
    /\ quiz = <<>>
    /\ student_answers = <<>>
    /\ quiz_result = None
    /\ done = FALSE
    /\ progression_decision = None
    /\ lesson_summary = None
    /\ current_lesson_index = 0
    /\ course_lesson_files = files
    /\ course_completed = FALSE

\* a process that is not inside ensure_session
ProcOff ==
    [pc |-> "off", student_id |-> "", lesson_id |-> "", sess |-> None,
     session_id |-> None]

\* no say() in progress
SpeechOff ==
    [say |-> "off", anim |-> "off", stop |-> FALSE, elapsed |-> 0, duration |-> 0]

Idle ==
    /\ procs = [p \in 1..NumProcs |-> ProcOff]
    /\ gate_in = None
    /\ gate_out = None
    /\ rating = ""
    /\ speech = SpeechOff

Init ==
    /\ graph \in {"course", "teach"}
    /\ pc = EntryPoint(graph)
    /\ error = ""
    /\ runs = 1
    /\ \E sid \in Students \cup {""} :
       \E files \in (IF graph = "course" THEN 0..MaxLessons ELSE {0}) :
          FreshState(sid, files)
    /\ sessions = <<>>
    \* the teach graph reads a lesson planner_only_graph stored earlier
    /\ lessons \in
         IF graph = "course" THEN {<<>>}
         ELSE {<<>>} \cup { <<LessonRow(LessonPlan("l1", n))>> : n \in 1..MaxSegments }
    /\ Idle

\* The process ends (it is killed, or its run has ended) and a new one is
\* started against the same store.
Restart ==
    /\ runs < MaxRuns
    /\ graph = "course" => course_lesson_files <= MaxResumeLessons
    /\ runs' = runs + 1
    /\ pc' = EntryPoint(graph)
    /\ error' = ""
    /\ \E sid \in Students \cup {""} :
          /\ student_id' = sid
          /\ lesson_id' = ""
          /\ lesson_plan_json' = None
          /\ session_id' = None
          /\ segment_index' = 0
          /\ transcript' = <<>>
          /\ score' = None
          /\ score_max' = None
          /\ attempt_number' = None
          /\ quiz' = <<>>
          /\ student_answers' = <<>>
          /\ quiz_result' = None
          /\ done' = FALSE
          /\ progression_decision' = None
          /\ lesson_summary' = None
          /\ current_lesson_index' = 0
          /\ course_completed' = FALSE
    /\ rating' = ""
    /\ UNCHANGED <<graph, course_lesson_files, storeVars, procs, gateVars, speech>>

RaiseIgnored(msg) ==
    /\ pc' = "introduce"
    /\ error' = msg
    /\ UNCHANGED <<graph, runs, stateVars, storeVars, procs, gateVars, robotVars>>

\* an exception leaves the node: the run ends, the run state is as it was
Raise(msg) ==
    /\ pc' = "error"
    /\ error' = msg
    /\ UNCHANGED <<graph, runs, stateVars, storeVars, procs, gateVars, robotVars>>

----------------------------------------------------------------------------
(* Nodes *)

\* course_graph.plan_current_lesson_node
PlanLesson ==
    /\ graph = "course" /\ pc = "plan_lesson"
    /\ IF current_lesson_index >= course_lesson_files
       THEN /\ course_completed' = TRUE
            /\ pc' = "ensure_session"
            /\ UNCHANGED <<lesson_id, lesson_plan_json, lessons>>
       ELSE \E lid \in LessonIds, n \in 1..MaxSegments :
            LET plan == LessonPlan(lid, n)
            IN /\ lesson_plan_json' = Some(plan)
               /\ lesson_id' = plan.lesson_id
               /\ lessons' = MergeLesson(lessons, plan)
               /\ pc' = "ensure_session"
               /\ UNCHANGED course_completed
    /\ UNCHANGED <<graph, error, runs, student_id, session_id, segment_index,
                   transcript, score, score_max, attempt_number, quiz,
                   student_answers, quiz_result, done, progression_decision,
                   lesson_summary, current_lesson_index, course_lesson_files,
                   sessions, procs, gateVars, robotVars>>

\* teach_graph.load_lesson_node: no lesson_id in the input, so the latest row
LoadLesson ==
    /\ graph = "teach" /\ pc = "load_lesson"
    /\ IF lessons = <<>>
       THEN Raise("No lesson found in DB.")
       ELSE /\ lesson_plan_json' = Some(lessons[Len(lessons)].plan_json)
            /\ lesson_id' = lessons[Len(lessons)].id
            /\ pc' = "ensure_session"
            /\ UNCHANGED <<graph, error, runs, student_id, session_id,
                           segment_index, transcript, score, score_max,
                           attempt_number, quiz, student_answers, quiz_result,
                           done, progression_decision, lesson_summary,
                           current_lesson_index, course_lesson_files,
                           course_completed, storeVars, procs, gateVars, robotVars>>

\* the rows after ensure_session's lookup-or-create
EnsureSessionRowsDup(rows, sid, lid) == Append(rows, NewSession(rows, sid, lid))

EnsureSessionRowsReset(rows, sid, lid) ==
    IF SelectSession(rows, sid, lid) = None
    THEN Append(rows, NewSession(rows, sid, lid))
    ELSE [i \in 1..Len(rows) |->
            IF i \in SessionsOf(rows, sid, lid)
            THEN [rows[i] EXCEPT !.segment_index = 0, !.transcript_json = <<>>]
            ELSE rows[i]]

EnsureSessionRows(rows, sid, lid) ==
    IF SelectSession(rows, sid, lid) = None
    THEN Append(rows, NewSession(rows, sid, lid))
    ELSE rows

\* ensure_session_node (both graphs)
EnsureSession ==
    /\ pc = "ensure_session"
    /\ IF lesson_plan_json = None
       THEN Raise("KeyError: 'lesson_plan_json'")
       ELSE IF student_id = ""
       THEN Raise("student_id missing from graph input.")
       ELSE LET lid == Val(lesson_plan_json).lesson_id
                rows == EnsureSessionRows(sessions, student_id, lid)
                sess == Val(SelectSession(rows, student_id, lid))
            IN /\ sessions' = rows
               /\ session_id' = Some(sess.id)
               /\ segment_index' = sess.segment_index
               /\ transcript' = sess.transcript_json
               /\ score' = sess.score
               /\ score_max' = sess.score_max
               /\ attempt_number' =
                    IF attempt_number = None THEN Some(1) ELSE attempt_number
               /\ pc' = "introduce"
               /\ UNCHANGED <<graph, error, runs, student_id, lesson_id,
                              lesson_plan_json, quiz, student_answers,
                              quiz_result, done, progression_decision,
                              lesson_summary, current_lesson_index,
                              course_lesson_files, course_completed, lessons,
                              procs, gateVars, robotVars>>

\* introduce_node: only the robot speaks
Introduce ==
    /\ pc = "introduce"
    /\ pc' = "teach"
    /\ UNCHANGED <<graph, error, runs, stateVars, storeVars, procs, gateVars, robotVars>>

\* re_introduce_node: only the robot speaks
ReIntroduce ==
    /\ pc = "re_introduce"
    /\ pc' = "teach"
    /\ UNCHANGED <<graph, error, runs, stateVars, storeVars, procs, gateVars, robotVars>>

\* the two events one taught segment appends
SegmentEventsTeacherOnly(i, ans) == <<Event("teacher", Script(i), 0)>>

SegmentEvents(i, ans) ==
    <<Event("teacher", Script(i), 0), Event("student", ans, 0)>>

\* segment_index after teaching segment i
NextSegmentSkip(i) == i + 2

NextSegment(i) == i + 1

\* route_after_teach (course graph); the teach graph's edge teach -> persist
AfterTeach(isDone) ==
    IF graph = "teach" THEN "persist"
    ELSE IF isDone THEN "retrieve_quiz_context" ELSE "teach"

\* teach_segment_node / teach_next_segment_node, the real-time grading call
\* coming to one of realtime
TeachWith(realtime) ==
    /\ pc = "teach"
    /\ LET i == segment_index
       IN IF i >= Val(lesson_plan_json).segments
          THEN /\ done' = TRUE
               /\ pc' = AfterTeach(TRUE)
               /\ UNCHANGED <<transcript, segment_index, rating>>
          ELSE \E heard \in Answers, typed \in Answers, reply \in realtime :
               LET ans == IF heard = "" THEN typed ELSE heard
               IN /\ rating' = GradeSingleAnswer(reply)
                  /\ transcript' = transcript \o SegmentEvents(i, ans)
                  /\ WithinAnswerBound(transcript')
                  /\ segment_index' = NextSegment(i)
                  /\ done' = FALSE
                  /\ pc' = AfterTeach(FALSE)
    /\ UNCHANGED <<graph, error, runs, student_id, lesson_id, lesson_plan_json,
                   session_id, score, score_max, attempt_number, quiz,
                   student_answers, quiz_result, progression_decision,
                   lesson_summary, current_lesson_index, course_lesson_files,
                   course_completed, storeVars, procs, gateVars, speech>>

\* teach_segment_node / teach_next_segment_node
Teach == TeachWith(RealtimeReplies)

\* the row persist_node writes
PersistedRowNullScore(row) ==
    [row EXCEPT !.segment_index = segment_index,
                !.transcript_json = transcript,
                !.score = score,
                !.score_max = score_max]

PersistedRowNewEvents(row) ==
    [row EXCEPT !.segment_index = segment_index,
                !.transcript_json =
                    SubSeq(transcript, Len(row.transcript_json) + 1,
                           Len(transcript)),
                !.score = IF score # None THEN score ELSE @,
                !.score_max = IF score # None THEN score_max ELSE @]

PersistedRow(row) ==
    [row EXCEPT !.segment_index = segment_index,
                !.transcript_json = transcript,
                !.score = IF score # None THEN score ELSE @,
                !.score_max = IF score # None THEN score_max ELSE @]

RouteQuizWhenDone ==
    IF ~done THEN "teach" ELSE "retrieve_quiz_context"

\* teach_graph.route
Route ==
    IF ~done THEN "teach"
    ELSE IF score # None THEN "END"
    ELSE "retrieve_quiz_context"

\* persist_node: teach_graph raises when the row is missing, course_graph
\* skips the write
Persist ==
    /\ pc = "persist"
    /\ LET k == SessionIndex(sessions, session_id)
       IN IF k = 0 /\ graph = "teach"
          THEN Raise("Session missing in DB.")
          ELSE /\ sessions' =
                    IF k = 0 THEN sessions
                    ELSE [sessions EXCEPT ![k] = PersistedRow(sessions[k])]
               /\ pc' = IF graph = "teach" THEN Route ELSE "advance_to_next"
               /\ UNCHANGED <<graph, error, runs, stateVars, lessons, procs,
                              gateVars, robotVars>>

\* retrieve_quiz_context_node: only the retrieved passages change
RetrieveQuizContext ==
    /\ pc = "retrieve_quiz_context"
    /\ pc' = "quiz"
    /\ UNCHANGED <<graph, error, runs, stateVars, storeVars, procs, gateVars, robotVars>>

\* quiz_node: generate_quiz, then one answer per question
QuizWith(replies, realtime) ==
    /\ pc = "quiz"
    /\ \E qs \in replies, said \in QuizAnswers, reply \in realtime :
          IF ~QuizOutValid(qs)
          THEN Raise("ValidationError: QuizOut")
          ELSE LET answers == CollectedAnswers(qs, said)
               IN /\ rating' = GradeSingleAnswer(reply)
                  /\ quiz' = qs
                  /\ student_answers' = answers
                  /\ transcript' = transcript \o QuizEvents(QuizRole, qs, answers)
                  /\ WithinAnswerBound(transcript')
                  /\ pc' = "grade"
                  /\ UNCHANGED <<graph, error, runs, student_id, lesson_id,
                                 lesson_plan_json, session_id, segment_index,
                                 score, score_max, attempt_number, quiz_result,
                                 done, progression_decision, lesson_summary,
                                 current_lesson_index, course_lesson_files,
                                 course_completed, storeVars, procs, gateVars, speech>>

\* quiz_node
Quiz == QuizWith(QuizReplies, RealtimeReplies)

\* grade_node with grade_quiz returning one of results: whatever it returns
\* goes into the run state
GradeWith(results) ==
    /\ pc = "grade"
    /\ \E result \in results :
          /\ quiz_result' = Some(result)
          /\ score' = Some(result.total_score)
          /\ score_max' = Some(result.max_score)
          /\ transcript' =
               IF graph = "teach"
               THEN Append(transcript,
                           Event("grader_agent", "result", result.total_score))
               ELSE transcript
    /\ pc' = "progression"
    /\ UNCHANGED <<graph, error, runs, student_id, lesson_id, lesson_plan_json,
                   session_id, segment_index, attempt_number, quiz,
                   student_answers, done, progression_decision, lesson_summary,
                   current_lesson_index, course_lesson_files, course_completed,
                   storeVars, procs, gateVars, robotVars>>

\* grade_node
Grade == GradeWith(GradeResults)

\* route_after_progression
RouteAfterProgressionRequiz(decision) ==
    IF decision = "repeat" THEN "quiz"
    ELSE IF graph = "teach" THEN "summarize" ELSE "persist"

RouteAfterProgression(decision) ==
    IF decision = "repeat" THEN "reset_for_repeat"
    ELSE IF graph = "teach" THEN "summarize" ELSE "persist"

\* progression_node: evaluate_progression(score, score_max, 60.0, ..)
ProgressionWith(replies) ==
    /\ pc = "progression"
    /\ \E reply \in replies :
          IF ~ProgressionAnalysisValid(reply)
          THEN Raise("ValidationError: ProgressionAnalysis")
          ELSE LET progression ==
                     ProgressionDecision(
                        Decision(Val(score), Val(score_max), PassingThreshold),
                        reply)
               IN /\ progression_decision' = Some(progression)
                  /\ transcript' =
                        Append(transcript,
                               Event(ProgressionRole, progression.decision, 0))
                  /\ pc' = RouteAfterProgression(progression.decision)
                  /\ UNCHANGED <<graph, error, runs, student_id, lesson_id,
                                 lesson_plan_json, session_id, segment_index,
                                 score, score_max, attempt_number, quiz,
                                 student_answers, quiz_result, done,
                                 lesson_summary, current_lesson_index,
                                 course_lesson_files, course_completed,
                                 storeVars, procs, gateVars, robotVars>>

\* progression_node
Progression == ProgressionWith(AnalyzerReplies)

\* state["attempt_number"] = state.get("attempt_number", 1) + 1
RepeatAttemptSame(a) == IF a = None THEN Some(1) ELSE a

RepeatAttempt(a) == Some((IF a = None THEN 1 ELSE Val(a)) + 1)

\* the transcript after the reset: teach_graph appends a marker
RepeatTranscriptCleared(tr, a) == <<>>

RepeatTranscript(tr, a) ==
    IF graph = "teach"
    THEN Append(tr, Event("system", "lesson_repeat", Val(a)))
    ELSE tr

\* state["quiz"] = []; state["student_answers"] = []
RepeatQuizKept(q) == q

RepeatQuiz(q) == <<>>

\* reset_for_repeat_node
ResetForRepeat ==
    /\ pc = "reset_for_repeat"
    /\ (IF attempt_number = None THEN 1 ELSE Val(attempt_number)) < MaxAttempts
    /\ attempt_number' = RepeatAttempt(attempt_number)
    /\ segment_index' = 0
    /\ quiz' = RepeatQuiz(quiz)
    /\ student_answers' = RepeatQuiz(student_answers)
    /\ quiz_result' = None
    /\ score' = None
    /\ score_max' = None
    /\ done' = FALSE
    /\ transcript' = RepeatTranscript(transcript, attempt_number')
    /\ pc' = "re_introduce"
    /\ UNCHANGED <<graph, error, runs, student_id, lesson_id, lesson_plan_json,
                   session_id, progression_decision, lesson_summary,
                   current_lesson_index, course_lesson_files, course_completed,
                   storeVars, procs, gateVars, robotVars>>

\* teach_graph.summarize_node
Summarize ==
    /\ graph = "teach" /\ pc = "summarize"
    /\ lesson_summary' = Some("summary")
    /\ transcript' = Append(transcript, Event("summary_agent", "summary", 0))
    /\ pc' = "persist"
    /\ UNCHANGED <<graph, error, runs, student_id, lesson_id, lesson_plan_json,
                   session_id, segment_index, score, score_max, attempt_number,
                   quiz, student_answers, quiz_result, done,
                   progression_decision, current_lesson_index,
                   course_lesson_files, course_completed, storeVars, procs,
                   gateVars, robotVars>>

\* whether advance_to_next_lesson_node is at the last lesson
IsLastLessonOff(index, files) == index >= files

IsLastLesson(index, files) == index + 1 >= files

\* the index advance_to_next_lesson_node moves to
NextLessonIndexStay(index) == index

NextLessonIndexSkip(index) == index + 2

NextLessonIndex(index) == index + 1

\* the transcript advance_to_next_lesson_node leaves
AdvanceTranscriptKept(tr) == tr

AdvanceTranscript(tr) == <<>>

\* route_after_advance
RouteAfterAdvanceLoop(completed) == "plan_lesson"

RouteAfterAdvance(completed) ==
    IF completed THEN "course_complete" ELSE "plan_lesson"

\* course_graph.advance_to_next_lesson_node
AdvanceToNext ==
    /\ graph = "course" /\ pc = "advance_to_next"
    /\ IF IsLastLesson(current_lesson_index, course_lesson_files)
       THEN /\ course_completed' = TRUE
            /\ UNCHANGED <<current_lesson_index, segment_index, done,
                           attempt_number, quiz, student_answers, quiz_result,
                           score, score_max, transcript>>
       ELSE /\ current_lesson_index' = NextLessonIndex(current_lesson_index)
            /\ segment_index' = 0
            /\ done' = FALSE
            /\ attempt_number' = Some(1)
            /\ quiz' = <<>>
            /\ student_answers' = <<>>
            /\ quiz_result' = None
            /\ score' = None
            /\ score_max' = None
            /\ transcript' = AdvanceTranscript(transcript)
            /\ UNCHANGED course_completed
    /\ pc' = RouteAfterAdvance(course_completed')
    /\ UNCHANGED <<graph, error, runs, student_id, lesson_id, lesson_plan_json,
                   session_id, progression_decision, lesson_summary,
                   course_lesson_files, storeVars, procs, gateVars, robotVars>>

\* course_complete_node, then END
CourseComplete ==
    /\ pc = "course_complete"
    /\ pc' = "END"
    /\ UNCHANGED <<graph, error, runs, stateVars, storeVars, procs, gateVars, robotVars>>

Next ==
    \/ Restart
    \/ PlanLesson
    \/ LoadLesson
    \/ EnsureSession
    \/ Introduce
    \/ TeachWith(UsualReplies)
    \/ Persist
    \/ RetrieveQuizContext
    \/ QuizWith(QuizReplies, UsualReplies)
    \/ Grade
    \/ Progression
    \/ ResetForRepeat
    \/ ReIntroduce
    \/ Summarize
    \/ AdvanceToNext
    \/ CourseComplete

Spec == Init /\ [][Next]_vars

\* one run of either graph, with every outcome of the real-time grading call
NextFeedback ==
    \/ PlanLesson
    \/ LoadLesson
    \/ EnsureSession
    \/ Introduce
    \/ Teach
    \/ Persist
    \/ RetrieveQuizContext
    \/ Quiz
    \/ Grade
    \/ Progression
    \/ ResetForRepeat
    \/ ReIntroduce
    \/ Summarize
    \/ AdvanceToNext
    \/ CourseComplete

SpecFeedback == Init /\ [][NextFeedback]_vars

----------------------------------------------------------------------------
(* One run of a two-lesson course, student s1, with a grader that gives    *)
(* 4/10 on the first attempt of lesson 1, 7/10 on its second attempt and   *)
(* 10/10 on lesson 2, and a quiz model and an analyzer whose replies        *)
(* validate.  The run is not interrupted.                                   *)

InitScenario ==
    /\ graph = "course"
    /\ pc = EntryPoint(graph)
    /\ error = ""
    /\ runs = 1
    /\ FreshState("s1", 2)
    /\ sessions = <<>>
    /\ lessons = <<>>
    /\ Idle

\* what grade_quiz returns in the scenario
ScenarioResult ==
    IF current_lesson_index = 0
    THEN IF attempt_number = Some(1) THEN QuizResult(4, 10) ELSE QuizResult(7, 10)
    ELSE QuizResult(10, 10)

NextScenario ==
    \/ PlanLesson
    \/ EnsureSession
    \/ Introduce
    \/ TeachWith(UsualReplies)
    \/ RetrieveQuizContext
    \/ QuizWith(QuizOutputs, UsualReplies)
    \/ GradeWith({ScenarioResult})
    \/ ProgressionWith({reply \in AnalyzerReplies : ProgressionAnalysisValid(reply)})
    \/ ResetForRepeat
    \/ ReIntroduce
    \/ Persist
    \/ AdvanceToNext
    \/ CourseComplete

\* the scenario's nodes other than progression
ScenarioNodes ==
    \/ PlanLesson
    \/ EnsureSession
    \/ Introduce
    \/ TeachWith(UsualReplies)
    \/ RetrieveQuizContext
    \/ QuizWith(QuizOutputs, UsualReplies)
    \/ GradeWith({ScenarioResult})
    \/ ResetForRepeat
    \/ ReIntroduce
    \/ Persist
    \/ AdvanceToNext
    \/ CourseComplete

\* app.invoke runs the graph until END: a node that can run does run.  The
\* progression node can run exactly when pc = "progression" and its step
\* leaves that value, so weak fairness of it is  []<>(pc # "progression").
SpecScenario ==
    /\ InitScenario
    /\ [][NextScenario]_vars
    /\ WF_vars(ScenarioNodes)
    /\ []<>(pc # "progression")

----------------------------------------------------------------------------
(* One uninterrupted run of a course of one or more lessons for student    *)
(* s1, in which every external call returns a reply that validates and,    *)
(* for each lesson, some attempt is graded at or above the threshold: the  *)
(* attempt numbered MaxAttempts at the latest.                             *)

InitCourse ==
    /\ graph = "course"
    /\ pc = EntryPoint(graph)
    /\ error = ""
    /\ runs = 1
    /\ \E files \in 1..MaxLessons : FreshState("s1", files)
    /\ sessions = <<>>
    /\ lessons = <<>>
    /\ Idle

\* what grade_quiz returns: anything, but a passing result in the last attempt
CourseResults ==
    IF attempt_number = Some(MaxAttempts) THEN {QuizResult(6, 10)}
    ELSE GradeResults

\* the course graph's nodes other than progression
CourseNodes ==
    \/ PlanLesson
    \/ EnsureSession
    \/ Introduce
    \/ TeachWith(UsualReplies)
    \/ RetrieveQuizContext
    \/ QuizWith(QuizOutputs, UsualReplies)
    \/ GradeWith(CourseResults)
    \/ ResetForRepeat
    \/ ReIntroduce
    \/ Persist
    \/ AdvanceToNext
    \/ CourseComplete

NextCourse ==
    \/ CourseNodes
    \/ ProgressionWith({reply \in AnalyzerReplies : ProgressionAnalysisValid(reply)})

\* app.invoke runs the graph until END: a node that can run does run (for
\* the progression node, as in SpecScenario)
SpecCourse ==
    /\ InitCourse
    /\ [][NextCourse]_vars
    /\ WF_vars(CourseNodes)
    /\ []<>(pc # "progression")

----------------------------------------------------------------------------
(* The graphs against a store that can fail: db.commit() of persist_node   *)
(* raises, or the row persist_node is about to update is no longer in the  *)
(* table when db.get looks for it.                                         *)

\* persist_node: db.commit() raises, nothing is written
PersistFails ==
    /\ pc = "persist"
    /\ SessionIndex(sessions, session_id) # 0
    /\ Raise("OperationalError: commit")

\* the run's row, the last of the table, is deleted from the store before
\* persist_node reads it
SessionRowLost ==
    /\ pc = "persist"
    /\ Len(sessions) > 0
    /\ Some(sessions[Len(sessions)].id) = session_id
    /\ sessions' = SubSeq(sessions, 1, Len(sessions) - 1)
    /\ UNCHANGED <<graph, pc, error, runs, stateVars, lessons, procs, gateVars, robotVars>>

NextFault ==
    \/ Next
    \/ PersistFails
    \/ SessionRowLost

SpecFault == Init /\ [][NextFault]_vars

----------------------------------------------------------------------------
(* The progression gate on its own: evaluate_progression and               *)
(* simple_progression_check applied to one (score, score_max, threshold).  *)

\* no graph is running
NoRun ==
    /\ graph = "teach"
    /\ pc = "END"
    /\ error = ""
    /\ runs = 0
    /\ FreshState("", 0)
    /\ sessions = <<>>
    /\ lessons = <<>>

\* the (score, score_max) pairs given to the gate: the small ones, and one
\* total of a long quiz
GateInputs ==
    ((0..MaxGateScore) \X (0..MaxGateScore)) \cup { <<241, 402>> }

InitGate ==
    /\ NoRun
    /\ procs = [p \in 1..NumProcs |-> ProcOff]
    /\ \E in \in GateInputs, t \in GateThresholds :
          gate_in = Some([score |-> in[1], score_max |-> in[2],
                          passing_threshold |-> t])
    /\ gate_out = None
    /\ rating = ""
    /\ speech = SpeechOff

\* evaluate_progression: the decision, the percentage computed (as floor and
\* has-fraction) and the fields score_percentage (in tenths) and
\* passing_threshold of the record returned
EvaluateProgression ==
    /\ pc # "error"
    /\ gate_in # None /\ gate_out = None
    /\ \E reply \in AnalyzerReplies :
          IF ~ProgressionAnalysisValid(reply)
          THEN Raise("ValidationError: ProgressionAnalysis")
          ELSE LET in == Val(gate_in)
                   p == ScorePercentage(in.score, in.score_max)
                   progression ==
                     ProgressionDecision(
                        Decision(in.score, in.score_max, in.passing_threshold),
                        reply)
               IN /\ gate_out' = Some([decision |-> progression.decision,
                                       floor |-> FloatFloor(p),
                                       frac |-> FloatHasFrac(p),
                                       score_percentage |-> Round1(p),
                                       passing_threshold |->
                                           in.passing_threshold])
                  /\ UNCHANGED <<runVars, stateVars, storeVars, procs, gate_in, robotVars>>

NextGate == EvaluateProgression

SpecGate == InitGate /\ [][NextGate]_vars

----------------------------------------------------------------------------
(* io/robot_reachy_media.py: one call of say(), after the audio has been   *)
(* prepared, and the thread it starts on _animate_talking.  The two        *)
(* threads interleave freely.  duration and elapsed are counted in         *)
(* move_interval units.  A goto_target call of the animation returns,      *)
(* raises (and the exception is swallowed) or never returns.               *)

InitSay ==
    /\ NoRun
    /\ procs = [p \in 1..NumProcs |-> ProcOff]
    /\ gate_in = None
    /\ gate_out = None
    /\ rating = ""
    /\ \E d \in 0..MaxDuration :
          speech = [say |-> "start", anim |-> "off", stop |-> FALSE,
                    elapsed |-> 0, duration |-> d]

SpeechStep(next) ==
    /\ speech' = next
    /\ UNCHANGED <<runVars, stateVars, storeVars, procs, gateVars, rating>>

\* animation_thread.start()
SayStartThread ==
    /\ speech.say = "start"
    /\ SpeechStep([speech EXCEPT !.say = "push_audio", !.anim = "check"])

\* self._mini.media.push_audio_sample(audio)
SayPushAudio ==
    /\ speech.say = "push_audio"
    /\ SpeechStep([speech EXCEPT !.say = "sleep"])

\* time.sleep(duration + 0.1)
SaySleep ==
    /\ speech.say = "sleep"
    /\ SpeechStep([speech EXCEPT !.say = "set_stop"])

\* stop_event.set()
SaySetStop ==
    /\ speech.say = "set_stop"
    /\ SpeechStep([speech EXCEPT !.say = "join", !.stop = TRUE])

\* whether join(timeout=0.5) may return
JoinReturnsWhenDone(anim) == anim = "done"

JoinReturns(anim) == TRUE

\* animation_thread.join(timeout=0.5): returns when the thread has ended or
\* the timeout has passed
SayJoin ==
    /\ speech.say = "join"
    /\ JoinReturns(speech.anim)
    /\ SpeechStep([speech EXCEPT !.say = "returned"])

\* where the loop test of _animate_talking leads
LoopTestIgnoresStop(elapsed, duration, stop) ==
    IF elapsed < duration THEN "move" ELSE "neutral"

LoopTest(elapsed, duration, stop) ==
    IF elapsed < duration /\ ~stop THEN "move" ELSE "neutral"

\* while elapsed < duration and not stop_event.is_set()
AnimCheck ==
    /\ speech.anim = "check"
    /\ SpeechStep([speech EXCEPT
                     !.anim = LoopTest(speech.elapsed, speech.duration, speech.stop)])

\* the goto_target call of one loop iteration
AnimMove ==
    /\ speech.anim = "move"
    /\ \E outcome \in {"sleep", "hung"} :
          SpeechStep([speech EXCEPT !.anim = outcome])

\* time.sleep(move_interval); elapsed += move_interval
AnimSleep ==
    /\ speech.anim = "sleep"
    /\ SpeechStep([speech EXCEPT !.anim = "check", !.elapsed = @ + 1])

\* the goto_target call back to the neutral position
AnimNeutral ==
    /\ speech.anim = "neutral"
    /\ \E outcome \in {"done", "hung"} :
          SpeechStep([speech EXCEPT !.anim = outcome])

\* the steps of the thread that called say()
SayThread ==
    \/ SayStartThread
    \/ SayPushAudio
    \/ SaySleep
    \/ SaySetStop
    \/ SayJoin

NextSay ==
    \/ SayThread
    \/ AnimCheck
    \/ AnimMove
    \/ AnimSleep
    \/ AnimNeutral

\* the calling thread runs; nothing is assumed of the animation thread
SpecSay == InitSay /\ [][NextSay]_vars /\ WF_vars(SayThread)

----------------------------------------------------------------------------
(* Runs started concurrently against one store: each process is inside     *)
(* ensure_session_node, whose select and insert are separate statements of *)
(* separate database sessions.                                             *)

InitConc ==
    /\ NoRun
    /\ procs \in [1..NumProcs ->
                    { [pc |-> "select", student_id |-> sid, lesson_id |-> lid,
                       sess |-> None, session_id |-> None] :
                      sid \in ConcStudents, lid \in LessonIds }]
    /\ gate_in = None
    /\ gate_out = None
    /\ rating = ""
    /\ speech = SpeechOff

\* sess = db.execute(select(Session).where(..)).scalars().first()
ProcSelect(p) ==
    /\ procs[p].pc = "select"
    /\ LET sess == SelectSession(sessions, procs[p].student_id, procs[p].lesson_id)
       IN procs' = [procs EXCEPT ![p].sess = sess,
                                 ![p].pc = IF sess = None THEN "insert" ELSE "load"]
    /\ UNCHANGED <<runVars, stateVars, storeVars, gateVars, robotVars>>

\* if not sess: sess = Session(..); db.add(sess); db.commit(); db.refresh(sess)
ProcInsert(p) ==
    /\ procs[p].pc = "insert"
    /\ LET row == NewSession(sessions, procs[p].student_id, procs[p].lesson_id)
       IN /\ sessions' = Append(sessions, row)
          /\ procs' = [procs EXCEPT ![p].sess = Some(row), ![p].pc = "load"]
    /\ UNCHANGED <<runVars, stateVars, lessons, gateVars, robotVars>>

\* state["session_id"] = sess.id, and the node returns
ProcLoad(p) ==
    /\ procs[p].pc = "load"
    /\ procs' = [procs EXCEPT ![p].session_id = Some(Val(procs[p].sess).id),
                              ![p].pc = "done"]
    /\ UNCHANGED <<runVars, stateVars, storeVars, gateVars, robotVars>>

NextConc ==
    \E p \in 1..NumProcs :
        \/ ProcSelect(p)
        \/ ProcInsert(p)
        \/ ProcLoad(p)

SpecConc == InitConc /\ [][NextConc]_vars

----------------------------------------------------------------------------
(* Properties *)

\* the lesson_id ensure_session_node looks the session up with
PlanLessonId == Val(lesson_plan_json).lesson_id

\* ensure_session_node runs to its return (it gets past both checks)
EnsureSessionReturns ==
    /\ pc = "ensure_session"
    /\ runs' = runs
    /\ lesson_plan_json # None
    /\ student_id # ""

\* C1: the progression gate answers "advance" exactly when the percentage
\* score / score_max * 100 is at least the passing threshold, and "repeat"
\* exactly when it is below; a percentage equal to the threshold advances,
\* for every score, score_max > 0 and threshold.
C1_AdvanceIffPercentageAtLeastThreshold ==
    (gate_out # None /\ Val(gate_in).score_max > 0) =>
        LET in == Val(gate_in)
            atLeast == in.score * 100 >= in.passing_threshold * in.score_max
        IN /\ Val(gate_out).decision \in {"advance", "repeat"}
           /\ Val(gate_out).decision = "advance" <=> atLeast

\* C2: ensure_session is idempotent: whenever it returns, the store holds
\* exactly one Session of the run's (student_id, lesson_id) and the run gets
\* that row's id; a call that finds the row leaves the store as it is; and no
\* step removes a row or changes a row's id, student or lesson, so a second
\* call, in the same run or a later one, returns the first call's session_id.
C2_EnsureSessionIdempotent ==
    [][ /\ EnsureSessionReturns =>
            LET before == SessionsOf(sessions, student_id, PlanLessonId)
                after == SessionsOf(sessions', student_id, PlanLessonId)
            IN /\ pc' = "introduce"
               /\ Cardinality(after) = 1
               /\ \A i \in after : session_id' = Some(sessions'[i].id)
               /\ before # {} => (after = before /\ Len(sessions') = Len(sessions))
        /\ Len(sessions') >= Len(sessions)
        /\ \A i \in 1..Len(sessions) :
              /\ sessions'[i].id = sessions[i].id
              /\ sessions'[i].student_id = sessions[i].student_id
              /\ sessions'[i].lesson_id = sessions[i].lesson_id ]_vars

\* a later run has got, from ensure_session, the session an earlier run made
\* progress in
C2_Witness ==
    /\ runs = 2
    /\ pc = "introduce"
    /\ Len(sessions) = 1
    /\ session_id = Some(sessions[1].id)
    /\ sessions[1].segment_index > 0

\* C3: the store never holds two Session rows of one (student_id,
\* lesson_id), however the selects and inserts of concurrently started runs
\* interleave.
C3_OneSessionPerStudentLesson ==
    \A i, j \in 1..Len(sessions) :
        (/\ sessions[i].student_id = sessions[j].student_id
         /\ sessions[i].lesson_id = sessions[j].lesson_id) => i = j

\* C4: when ensure_session finds no Session of the (student_id, lesson_id),
\* the row it has added when it returns (before Introduce or Teach) has
\* segment_index 0, an empty transcript and null score and score_max, the
\* run's attempt_number is 1, and the run state holds the row's values.
C4_NewSessionIsBlankAndCommitted ==
    [][ (EnsureSessionReturns
         /\ SelectSession(sessions, student_id, PlanLessonId) = None) =>
            /\ pc' = "introduce"
            /\ Len(sessions') = Len(sessions) + 1
            /\ LET row == sessions'[Len(sessions')]
               IN /\ row.student_id = student_id
                  /\ row.lesson_id = PlanLessonId
                  /\ row.segment_index = 0
                  /\ row.transcript_json = <<>>
                  /\ row.score = None
                  /\ row.score_max = None
                  /\ session_id' = Some(row.id)
            /\ attempt_number' = Some(1)
            /\ segment_index' = 0
            /\ transcript' = <<>>
            /\ score' = None
            /\ score_max' = None ]_vars

\* the first run has just created its session
C4_Witness ==
    /\ runs = 1
    /\ pc = "introduce"
    /\ current_lesson_index = 0
    /\ Len(sessions) = 1
    /\ sessions[1].segment_index = 0
    /\ sessions[1].transcript_json = <<>>
    /\ attempt_number = Some(1)

\* C5: when ensure_session finds a Session of the (student_id, lesson_id),
\* it leaves every stored row as it is and loads the row's id,
\* segment_index, transcript, score and score_max into the run state.
C5_ExistingSessionIsLoadedUnchanged ==
    [][ (EnsureSessionReturns
         /\ SelectSession(sessions, student_id, PlanLessonId) # None) =>
            LET row == Val(SelectSession(sessions, student_id, PlanLessonId))
            IN /\ pc' = "introduce"
               /\ sessions' = sessions
               /\ session_id' = Some(row.id)
               /\ segment_index' = row.segment_index
               /\ transcript' = row.transcript_json
               /\ score' = row.score
               /\ score_max' = row.score_max ]_vars

\* the second lesson of a course has got the session of the first, with its
\* progress
C5_Witness ==
    /\ graph = "course"
    /\ current_lesson_index = 1
    /\ pc = "introduce"
    /\ Len(sessions) = 1
    /\ segment_index > 0
    /\ segment_index = sessions[1].segment_index
    /\ transcript = sessions[1].transcript_json

\* C6: when ensure_session runs without a student_id, the run ends there
\* with an error (the student_id error whenever a lesson plan is present),
\* no Session row is created or changed, and no node of the run executes
\* afterwards.
C6_MissingStudentEndsRun ==
    [][ /\ (pc = "ensure_session" /\ student_id = "" /\ runs' = runs) =>
              /\ pc' = "error"
              /\ error' # ""
              /\ lesson_plan_json # None =>
                    error' = "student_id missing from graph input."
              /\ sessions' = sessions
        /\ pc = "error" => (runs' = runs + 1 /\ sessions' = sessions) ]_vars

\* a run has ended on the missing student_id
C6_Witness ==
    /\ pc = "error"
    /\ student_id = ""
    /\ lesson_plan_json # None
    /\ error = "student_id missing from graph input."

\* C7: when the teaching loop of an attempt has finished and the route has
\* left Teach for the quiz, segment_index is the number of segments N and
\* the attempt's teaching is the last 2N events of the transcript, no more:
\* one teacher event then one student event per segment, in segment order.
C7_TeachingLoopAppendsTwoEventsPerSegment ==
    pc = "retrieve_quiz_context" =>
        LET n == Val(lesson_plan_json).segments
            base == Len(transcript) - 2 * n
        IN /\ segment_index = n
           /\ base >= 0
           /\ \A i \in 0..(n - 1) :
                 /\ transcript[base + 2 * i + 1] = Event("teacher", Script(i), 0)
                 /\ transcript[base + 2 * i + 2].role = "student"
           /\ base > 0 => transcript[base].role \notin {"teacher", "student"}

\* C8: reset_for_repeat sets segment_index to 0, adds exactly 1 to
\* attempt_number, empties quiz and student_answers, nulls quiz_result,
\* score and score_max, and removes no event of the transcript.
C8_ResetForRepeatKeepsTranscript ==
    [][ (pc = "reset_for_repeat" /\ runs' = runs) =>
            /\ pc' = "re_introduce"
            /\ segment_index' = 0
            /\ attempt_number # None
            /\ attempt_number' = Some(Val(attempt_number) + 1)
            /\ quiz' = <<>>
            /\ student_answers' = <<>>
            /\ quiz_result' = None
            /\ score' = None
            /\ score_max' = None
            /\ IsPrefix(transcript, transcript') ]_vars

\* a second attempt starts with the first attempt's events in the transcript
C8_Witness ==
    /\ pc = "re_introduce"
    /\ attempt_number = Some(2)
    /\ segment_index = 0
    /\ score = None
    /\ Len(transcript) >= 2

\* C9: advance_to_next with current_lesson_index + 1 below the lesson count
\* moves to index + 1 and, before the next lesson is planned, has
\* segment_index 0, attempt_number 1, an empty transcript, quiz and
\* student_answers, null quiz_result, score and score_max, and
\* course_completed still false.
C9_AdvanceResetsLessonState ==
    [][ (/\ pc = "advance_to_next"
         /\ runs' = runs
         /\ current_lesson_index + 1 < course_lesson_files) =>
            /\ pc' = "plan_lesson"
            /\ current_lesson_index' = current_lesson_index + 1
            /\ segment_index' = 0
            /\ attempt_number' = Some(1)
            /\ transcript' = <<>>
            /\ quiz' = <<>>
            /\ student_answers' = <<>>
            /\ quiz_result' = None
            /\ score' = None
            /\ score_max' = None
            /\ course_completed' = FALSE ]_vars

\* the course has moved on to its second lesson, which is about to be planned
C9_Witness ==
    /\ graph = "course"
    /\ pc = "plan_lesson"
    /\ current_lesson_index = 1
    /\ Len(sessions) >= 1
    /\ sessions[1].score # None
    /\ transcript = <<>>
    /\ attempt_number = Some(1)
    /\ ~course_completed

\* C10: advance_to_next with current_lesson_index + 1 at or above the
\* lesson count sets course_completed, goes to course_complete and leaves
\* current_lesson_index as it is; from there the run only ends, and no step
\* of it touches the sessions table.
C10_LastLessonCompletesCourse ==
    [][ /\ (/\ pc = "advance_to_next"
            /\ runs' = runs
            /\ current_lesson_index + 1 >= course_lesson_files) =>
               /\ course_completed'
               /\ pc' = "course_complete"
               /\ current_lesson_index' = current_lesson_index
               /\ sessions' = sessions
        /\ (pc = "course_complete" /\ runs' = runs) =>
               (pc' = "END" /\ course_completed' /\ sessions' = sessions)
        /\ (pc = "END" /\ runs' = runs) => UNCHANGED vars ]_vars

\* the run of a course has ended after its last lesson
C10_Witness ==
    /\ graph = "course"
    /\ pc = "END"
    /\ course_completed
    /\ current_lesson_index + 1 = course_lesson_files
    /\ Len(sessions) >= 1

\* C11: once the quiz loop has completed, quiz and student_answers both
\* hold exactly five entries, and the loop recorded, question by question in
\* question order, answer i right after question i.
C11_QuizHasFiveAlignedAnswers ==
    /\ (quiz # <<>> \/ student_answers # <<>>) =>
           (Len(quiz) = QuizSize /\ Len(student_answers) = QuizSize)
    /\ pc = "grade" =>
           LET base == Len(transcript) - 2 * Len(quiz)
           IN /\ Len(quiz) = QuizSize
              /\ Len(student_answers) = QuizSize
              /\ base >= 0
              /\ \A i \in 1..Len(quiz) :
                    /\ transcript[base + 2 * i - 1] = Event(QuizRole, quiz[i], 0)
                    /\ transcript[base + 2 * i] =
                          Event("student", student_answers[i], 0)

\* a quiz has just been taken, one answer of it empty
C11_Witness ==
    /\ pc = "grade"
    /\ Len(quiz) = QuizSize
    /\ student_answers[2] = ""

\* C12: a grading result whose max_score is not twice the number of
\* questions, or whose total_score is below 0 or above max_score, ends the
\* Grade step in an error: the step never completes with such a result
\* stored in score and score_max.
C12_GradeRejectsMalformedResult ==
    [][ (pc = "grade" /\ pc' = "progression") =>
            /\ Val(score_max') = 2 * Len(quiz)
            /\ 0 <= Val(score')
            /\ Val(score') <= Val(score_max') ]_vars

\* a (score, score_max) pair within the grading contract of a quiz of
\* QuizSize questions
ScoreWithinContract(sc, scmax) ==
    /\ sc # None /\ scmax # None
    /\ Val(scmax) = 2 * QuizSize
    /\ 0 <= Val(sc) /\ Val(sc) <= Val(scmax)

\* C13: every stored Session row has score and score_max both null, or
\* 0 <= score <= score_max with score_max twice the number of quiz
\* questions; and the pair a progression decision is computed from is
\* within these bounds.
C13_StoredAndUsedScoresWithinContract ==
    /\ \A i \in 1..Len(sessions) :
          \/ (sessions[i].score = None /\ sessions[i].score_max = None)
          \/ ScoreWithinContract(sessions[i].score, sessions[i].score_max)
    /\ pc = "progression" => ScoreWithinContract(score, score_max)

\* C14: whatever the analyzer replies (any reasoning, any key it adds), a
\* progression step that returns a decision returns the one the score,
\* score_max and threshold determine, and the graph takes that decision's
\* route: two analyzer outputs never give two decisions or two routes.
C14_DecisionIndependentOfAnalysis ==
    [][ (pc = "progression" /\ runs' = runs /\ pc' # "error") =>
            LET decision == Decision(Val(score), Val(score_max), PassingThreshold)
            IN /\ progression_decision' # None
               /\ Val(progression_decision').decision = decision
               /\ pc' = IF decision = "repeat" THEN "reset_for_repeat"
                        ELSE IF graph = "teach" THEN "summarize" ELSE "persist" ]_vars

\* a decision "repeat" has been taken on a failing score
C14_Witness ==
    /\ pc = "reset_for_repeat"
    /\ progression_decision # None
    /\ Val(progression_decision).decision = "repeat"
    /\ score = Some(4)

\* C15: the Session is checkpointed after every completed segment, so that
\* a run interrupted at any point resumes without teaching a completed
\* segment again: outside the checkpoint step that directly follows Teach,
\* the stored segment_index of the run's Session is never behind the
\* segment_index of the run.
C15_CompletedSegmentsAreCheckpointed ==
    LET k == SessionIndex(sessions, session_id)
    IN (k # 0 /\ pc # "persist") => sessions[k].segment_index >= segment_index

\* C16: after a repeat decision the next quiz starts only when all N
\* segments have been taught again in the new attempt, also when the run is
\* interrupted after the reset and resumed from the stored Session: while a
\* repeated attempt is being taught the stored segment_index is not ahead
\* of the run's (a resumed run would skip the segments between them), and
\* when the repeated attempt reaches the quiz its last 2N events are the N
\* segments, in order.
C16_RepeatTeachesAllSegmentsBeforeQuiz ==
    LET k == SessionIndex(sessions, session_id)
        n == Val(lesson_plan_json).segments
        base == Len(transcript) - 2 * n
        repeated == attempt_number # None /\ Val(attempt_number) >= 2
    IN /\ (repeated /\ pc \in {"re_introduce", "teach"} /\ k # 0) =>
              sessions[k].segment_index <= segment_index
       /\ (repeated /\ pc = "retrieve_quiz_context") =>
              /\ segment_index = n
              /\ base >= 0
              /\ \A i \in 0..(n - 1) :
                    /\ transcript[base + 2 * i + 1] = Event("teacher", Script(i), 0)
                    /\ transcript[base + 2 * i + 2].role = "student"

\* the progression decisions a transcript records, in order
RECURSIVE DecisionsOf(_)
DecisionsOf(tr) ==
    IF tr = <<>> THEN <<>>
    ELSE (IF Head(tr).role = "progression" THEN <<Head(tr).text>> ELSE <<>>)
         \o DecisionsOf(Tail(tr))

\* the decisions the stored Sessions record, in row order
RECURSIVE StoredDecisions(_)
StoredDecisions(rows) ==
    IF rows = <<>> THEN <<>>
    ELSE DecisionsOf(Head(rows).transcript_json) \o StoredDecisions(Tail(rows))

\* C17: in the two-lesson scenario (40% then 70% on lesson 1, 100% on
\* lesson 2) the run never fails and ends at END after course_complete with
\* course_completed true; the decisions recorded are repeat, advance,
\* advance in this order; and the Session of lesson 1 is written at
\* attempt_number 2, that of lesson 2 at attempt_number 1.
C17_TwoLessonCourseCompletes ==
    /\ [](pc # "error")
    /\ <>(pc = "END")
    /\ [](pc = "END" =>
            /\ course_completed
            /\ StoredDecisions(sessions) = <<"repeat", "advance", "advance">>)
    /\ [][ (pc = "persist" /\ pc' = "advance_to_next") =>
              attempt_number = Some(IF current_lesson_index = 0 THEN 2 ELSE 1) ]_vars
    /\ [][ pc' = "END" => pc = "course_complete" ]_vars

\* the course has ended with a Session for each of its two lessons
C17_Witness ==
    /\ pc = "END"
    /\ course_completed
    /\ Len(sessions) = 2
    /\ sessions[1].score = Some(7)
    /\ sessions[2].score = Some(10)

\* C18: the advance path is Progress, Summarize, Persist, AdvanceLesson:
\* when the run is about to advance the lesson index or complete the course
\* (it is at advance_to_next), a summary of the lesson has been generated,
\* and the step that brought it there is the persist step.
C18_AdvanceFollowsSummarizeAndPersist ==
    /\ [](pc = "advance_to_next" => lesson_summary # None)
    /\ [][ pc' = "advance_to_next" => pc = "persist" ]_vars

\* the Session row of the run holds the checkpoint of the run state
CheckpointWritten ==
    LET k == SessionIndex(sessions, session_id)
    IN /\ k # 0
       /\ sessions[k].segment_index = segment_index
       /\ sessions[k].transcript_json = transcript

\* C19: when the run leaves persist without the checkpoint written (the
\* write failed, or the row to update is missing), it stops with an error:
\* it does not go on to teach, quiz, advance the lesson index or complete
\* the course.
C19_FailedCheckpointStopsRun ==
    [][ (pc = "persist" /\ pc' # "persist" /\ runs' = runs
         /\ ~CheckpointWritten') => pc' = "error" ]_vars

\* C20: a Teach or Quiz step in which the tutor interface returned an empty
\* answer does not end the run in an error, and none of the
\* grade_single_answer calls it makes has an empty student answer.
C20_EmptyAnswerIsNeverGraded ==
    [][ (pc \in {"teach", "quiz"} /\ Len(transcript') > Len(transcript)) =>
            /\ pc' # "error"
            /\ "" \notin GradeSingleAnswerCalls(
                              SubSeq(transcript', Len(transcript) + 1,
                                     Len(transcript'))) ]_vars

\* C21: planning a source document that has been planned before (lesson
\* file 0 of the course, planned again by a later run) leaves table lessons
\* as it is: no row is added and no stored plan is changed; and no step
\* removes a row of table lessons.
C21_LessonPlannedOncePerDocument ==
    /\ [][ (/\ graph = "course" /\ pc = "plan_lesson" /\ pc' = "ensure_session"
            /\ runs > 1 /\ current_lesson_index = 0 /\ lessons # <<>>) =>
                lessons' = lessons ]_vars
    /\ [][ /\ Len(lessons') >= Len(lessons)
           /\ \A i \in 1..Len(lessons) : lessons'[i].id = lessons[i].id ]_vars

\* the attempt a transcript has reached: the largest attempt_number of its
\* lesson_repeat markers, 1 when it has none
RecordedAttempt(tr) ==
    LET ns == { tr[i].n : i \in { j \in 1..Len(tr) :
                                     /\ tr[j].role = "system"
                                     /\ tr[j].text = "lesson_repeat" } }
    IN IF ns = {} THEN 1 ELSE CHOOSE n \in ns : \A m \in ns : m <= n

\* C22: the attempt number of a Session is durable: in the teach graph,
\* whose transcript marks every repeat, a run that has its Session (new or
\* resumed) is at the attempt that the Session's transcript has reached, so
\* a run resuming a Session interrupted in attempt k >= 2 continues with
\* attempt_number = k.
C22_ResumedRunKeepsAttemptNumber ==
    (graph = "teach" /\ attempt_number # None) =>
        Val(attempt_number) = RecordedAttempt(transcript)

\* the position of a node on the path from planning to the end of the course
NodeRank(node) ==
    CASE node = "plan_lesson" -> 1
      [] node = "ensure_session" -> 2
      [] node = "introduce" -> 3
      [] node = "teach" -> 4
      [] node = "retrieve_quiz_context" -> 5
      [] node = "quiz" -> 6
      [] node = "grade" -> 7
      [] node = "progression" -> 8
      [] node = "reset_for_repeat" -> 9
      [] node = "re_introduce" -> 10
      [] node = "persist" -> 11
      [] node = "advance_to_next" -> 12
      [] node = "course_complete" -> 13
      [] OTHER -> 14

\* C23: a course run of one or more lessons in which every external call
\* returns and each lesson is eventually passed reaches END through
\* course_complete with course_completed true; the only steps that do not
\* move forward are teach to teach, the return to teach after the repeat
\* reset (progression, reset_for_repeat, re_introduce, teach) and
\* advance_to_next to plan_lesson.
C23_CourseRunReachesCourseComplete ==
    /\ <>(pc = "END" /\ course_completed)
    /\ [][ pc' = "END" => pc = "course_complete" ]_vars
    /\ [][ NodeRank(pc') <= NodeRank(pc) =>
              \/ pc = "teach" /\ pc' = "teach"
              \/ pc = "re_introduce" /\ pc' = "teach"
              \/ pc = "advance_to_next" /\ pc' = "plan_lesson" ]_vars
    /\ [][ pc' = "re_introduce" => pc = "reset_for_repeat" ]_vars
    /\ [][ pc' = "reset_for_repeat" => pc = "progression" ]_vars

\* a course of two lessons has ended after a repeated lesson
C23_Witness ==
    /\ pc = "END"
    /\ course_completed
    /\ course_lesson_files = 2
    /\ \E i \in 1..Len(StoredDecisions(sessions)) :
          StoredDecisions(sessions)[i] = "repeat"

\* C24: the run is at the quiz only with segment_index equal to the segment
\* count N of its lesson, and while it is at teach or at the quiz its score
\* and score_max are null.
C24_QuizAfterAllSegmentsWithNullScore ==
    /\ pc = "quiz" => segment_index = Val(lesson_plan_json).segments
    /\ pc \in {"teach", "quiz"} => (score = None /\ score_max = None)

\* the segment count of the stored lesson lid
StoredSegments(lid) ==
    LET k == CHOOSE i \in 1..Len(lessons) : lessons[i].id = lid
    IN lessons[k].plan_json.segments

\* C25: segment_index is within 0..N in the run state (N the segment count
\* of the run's lesson plan) and in every stored Session (N that of its
\* stored lesson); a Teach step below N adds exactly 1 to segment_index, and
\* a Teach step at N or above leaves segment_index and the transcript as
\* they are and sets done.
C25_SegmentIndexWithinLesson ==
    /\ [](/\ 0 <= segment_index
          /\ lesson_plan_json # None =>
                segment_index <= Val(lesson_plan_json).segments)
    /\ [](\A i \in 1..Len(sessions) :
            /\ 0 <= sessions[i].segment_index
            /\ sessions[i].segment_index <= StoredSegments(sessions[i].lesson_id))
    /\ [][ (pc = "teach" /\ runs' = runs) =>
              IF segment_index >= Val(lesson_plan_json).segments
              THEN /\ segment_index' = segment_index
                   /\ transcript' = transcript
                   /\ done'
              ELSE segment_index' = segment_index + 1 ]_vars

\* C26: the stored transcript of a Session is append-only: every step
\* (of any node, and the start of a new run) leaves the stored transcript
\* of each Session as it is or replaces it by a transcript that it is a
\* prefix of, and no Session row goes away.
C26_StoredTranscriptAppendOnly ==
    [][ /\ Len(sessions') >= Len(sessions)
        /\ \A i \in 1..Len(sessions) :
              /\ sessions'[i].id = sessions[i].id
              /\ IsPrefix(sessions[i].transcript_json,
                          sessions'[i].transcript_json) ]_vars

\* a resumed run has checkpointed a transcript of two or more segments
C26_Witness ==
    LET k == SessionIndex(sessions, session_id)
    IN /\ runs = 2
       /\ pc = "teach"
       /\ ~done
       /\ k # 0
       /\ Len(transcript) >= 4
       /\ sessions[k].transcript_json = transcript

\* C27: grade_single_answer returns correct, close or wrong: close when the
\* call raises or its reply does not parse, wrong when the reply has no
\* rating or one that is not recognised; and what a Teach or Quiz step does
\* to segment_index, the transcript, the score, the quiz and the route is
\* fixed by the state before it and the answers given, whatever the rating:
\* the events appended are those of the answers the transcript then shows.
C27_RatingOnlyAffectsFeedback ==
    /\ [](rating \in Ratings \cup {""})
    /\ [](\A reply \in RealtimeReplies :
            /\ GradeSingleAnswer(reply) \in Ratings
            /\ reply.call # "json" => GradeSingleAnswer(reply) = "close"
            /\ (reply.call = "json" /\ reply.rating = None) =>
                  GradeSingleAnswer(reply) = "wrong"
            /\ (reply.call = "json" /\ reply.rating # None
                  /\ Val(reply.rating) \notin Ratings) =>
                  GradeSingleAnswer(reply) = "wrong"
            /\ (reply.call = "json" /\ reply.rating # None
                  /\ Val(reply.rating) \in Ratings) =>
                  GradeSingleAnswer(reply) = Val(reply.rating))
    /\ [][ (pc = "teach" /\ segment_index < Val(lesson_plan_json).segments) =>
              /\ segment_index' = segment_index + 1
              /\ Len(transcript') = Len(transcript) + 2
              /\ transcript' =
                    transcript \o SegmentEvents(segment_index,
                                               transcript'[Len(transcript')].text)
              /\ pc' = AfterTeach(FALSE)
              /\ <<score', score_max', sessions'>> = <<score, score_max, sessions>>
          ]_vars
    /\ [][ (pc = "quiz" /\ pc' # "error") =>
              /\ transcript' = transcript \o QuizEvents(QuizRole, quiz', student_answers')
              /\ pc' = "grade"
              /\ <<segment_index', score', score_max', sessions'>> =
                    <<segment_index, score, score_max, sessions>> ]_vars

\* runs that differ in the real-time rating only: a lesson has been
\* checkpointed after a segment rated wrong
C27_Witness ==
    /\ rating = "wrong"
    /\ graph = "teach"
    /\ pc = "teach"
    /\ segment_index = 1
    /\ LET k == SessionIndex(sessions, session_id)
       IN k # 0 /\ sessions[k].transcript_json = transcript /\ Len(transcript) = 2

\* C28: with score_max 0 or negative the percentage is 0 and, the threshold
\* being above 0, the decision is repeat: a progression step on a result
\* with score_max <= 0 raises no arithmetic error, records the decision
\* repeat and goes to reset_for_repeat, never to persist or summarize, in
\* every attempt.
C28_ZeroMaxScoreRepeats ==
    /\ [](\A s \in 0..1, smax \in (-1)..0, t \in GateThresholds :
            /\ ScorePercentage(s, smax) = FloatZero
            /\ Decision(s, smax, t) = "repeat")
    /\ [][ (pc = "progression" /\ Val(score_max) <= 0) =>
              \/ pc' = "error" /\ error' = "ValidationError: ProgressionAnalysis"
              \/ /\ pc' = "reset_for_repeat"
                 /\ Val(progression_decision').decision = "repeat"
              \/ runs' # runs ]_vars

\* the second attempt of a lesson graded 0 out of 0 is repeated as well
C28_Witness ==
    /\ pc = "reset_for_repeat"
    /\ score_max = Some(0)
    /\ attempt_number = Some(2)
    /\ Val(progression_decision).decision = "repeat"

\* C29: say() returns after playback whether or not the animation thread
\* has ended, even when that thread never ends; the stop signal is set
\* before say() returns; and once the signal is set, the loop test of the
\* animation leads out of the loop: no further iteration is started.
C29_AnimationNeverGatesSay ==
    /\ <>(speech.say = "returned")
    /\ [](speech.say = "returned" => speech.stop)
    /\ [][ (speech.anim = "check" /\ speech.stop /\ speech' # speech
             /\ speech'.anim # "check") => speech'.anim = "neutral" ]_vars
    /\ [][ (speech.anim # "move" /\ speech'.anim = "move") =>
              (speech.anim = "check" /\ ~speech.stop) ]_vars

\* say() has returned while the animation thread hangs in a movement of
\* its loop
C29_Witness ==
    /\ speech.say = "returned"
    /\ speech.anim = "hung"
    /\ speech.elapsed < speech.duration

\* C30: a Quiz step replaces quiz and student_answers by the questions just
\* generated and the answers just given (the events it appends are theirs),
\* the repeat reset empties both, and what the Grade step is given is the
\* quiz and the answers of the latest Quiz step: the last events of the
\* transcript.
C30_QuizIsFreshPerAttempt ==
    /\ [][ (pc = "quiz" /\ pc' = "grade") =>
              /\ quiz' \in QuizOutputs
              /\ Len(student_answers') = Len(quiz')
              /\ transcript' =
                    transcript \o QuizEvents(QuizRole, quiz', student_answers')
          ]_vars
    /\ [][ (pc = "reset_for_repeat" /\ pc' = "re_introduce") =>
              (quiz' = <<>> /\ student_answers' = <<>>) ]_vars
    /\ [](pc \in {"re_introduce", "teach", "retrieve_quiz_context", "quiz"} =>
              (quiz = <<>> /\ student_answers = <<>>))
    /\ [](pc = "grade" =>
            /\ Len(transcript) >= 2 * Len(quiz)
            /\ SubSeq(transcript, Len(transcript) - 2 * Len(quiz) + 1,
                      Len(transcript))
                 = QuizEvents(QuizRole, quiz, student_answers))

\* the quiz of a second attempt is about to be graded: its second answer is
\* given, the empty one the transcript records is the first attempt's
C30_Witness ==
    /\ pc = "grade"
    /\ attempt_number = Some(2)
    /\ Len(quiz) = QuizSize
    /\ EmptyAnswers(transcript) = 1
    /\ student_answers[2] = "a2"

\* C31: the record evaluate_progression returns is consistent with itself:
\* for score_max > 0 its decision is "advance" exactly when its
\* score_percentage (the percentage rounded to one decimal) is at least its
\* passing_threshold.
C31_DecisionRecordSelfConsistent ==
    (gate_out # None /\ Val(gate_in).score_max > 0) =>
        LET out == Val(gate_out)
        IN out.decision = "advance" <=>
               out.score_percentage >= 10 * out.passing_threshold

\* C32: within a course run current_lesson_index never decreases, changes
\* only at advance_to_next and then by +1, and lies in 0..lesson_count - 1 for
\* a course of at least one lesson; course_completed, once true, stays true.
C32_LessonIndexMonotoneAndBounded ==
    /\ []((graph = "course" /\ course_lesson_files >= 1) =>
            current_lesson_index \in 0..(course_lesson_files - 1))
    /\ [][ (graph = "course" /\ runs' = runs) =>
              /\ current_lesson_index' >= current_lesson_index
              /\ current_lesson_index' # current_lesson_index =>
                    /\ pc = "advance_to_next"
                    /\ current_lesson_index' = current_lesson_index + 1
              /\ course_completed => course_completed'
          ]_vars

\* a course of several lessons completed at its last lesson
C32_Witness ==
    /\ graph = "course"
    /\ pc = "END"
    /\ course_completed
    /\ current_lesson_index >= 1
    /\ current_lesson_index = course_lesson_files - 1

\* a score and score_max that pass: non-null, score_max > 0 and a percentage
\* of at least the passing threshold
PassingScore(sc, scmax) ==
    /\ sc # None /\ scmax # None
    /\ Val(scmax) > 0
    /\ Val(sc) * 100 >= PassingThreshold * Val(scmax)

\* C33: in the course graph advance_to_next (which moves the lesson index or
\* marks the course completed) runs only after the current lesson was graded
\* with a percentage of at least 60, the progression decision was advance
\* and the lesson's Session was persisted with that score; a stored passing
\* score stays a passing score, so when course_completed is set for a course
\* of at least one lesson every lesson passed before still has its Session
\* with a non-null passing score.
C33_AdvanceOnlyAfterPersistedPass ==
    /\ [][ (graph = "course" /\ pc = "advance_to_next" /\ pc' # pc) =>
              LET k == SessionIndex(sessions, session_id)
              IN /\ quiz_result # None
                 /\ score = Some(Val(quiz_result).total_score)
                 /\ score_max = Some(Val(quiz_result).max_score)
                 /\ PassingScore(score, score_max)
                 /\ progression_decision # None
                 /\ Val(progression_decision).decision = "advance"
                 /\ k # 0
                 /\ sessions[k].student_id = student_id
                 /\ sessions[k].lesson_id = lesson_id
                 /\ sessions[k].score = score
                 /\ sessions[k].score_max = score_max
          ]_vars
    /\ [][ (graph = "course" /\ runs' = runs) =>
              /\ (pc' = "advance_to_next" /\ pc' # pc) => pc = "persist"
              /\ (pc' = "persist" /\ pc' # pc) => pc = "progression"
              /\ (current_lesson_index' # current_lesson_index
                    \/ (course_lesson_files >= 1 /\ ~course_completed
                          /\ course_completed')) => pc = "advance_to_next"
              /\ \A i \in 1..Len(sessions) :
                    PassingScore(sessions[i].score, sessions[i].score_max) =>
                        /\ i <= Len(sessions')
                        /\ PassingScore(sessions'[i].score, sessions'[i].score_max)
          ]_vars
    /\ []((graph = "course" /\ course_completed /\ course_lesson_files >= 1) =>
            LET k == SessionIndex(sessions, session_id)
            IN /\ k # 0
               /\ PassingScore(sessions[k].score, sessions[k].score_max)
               /\ current_lesson_index = course_lesson_files - 1)

\* a course of two lessons completed, with two stored Sessions
C33_Witness ==
    /\ graph = "course"
    /\ course_completed
    /\ course_lesson_files = 2
    /\ Len(sessions) = 2
    /\ \A i \in 1..2 : PassingScore(sessions[i].score, sessions[i].score_max)

\* the Session ensure_session_node finds is complete: all N segments of the
\* run's lesson taught and a score stored
StoredSessionComplete ==
    /\ graph = "teach" /\ pc = "ensure_session"
    /\ lesson_plan_json # None /\ student_id # ""
    /\ LET sess == SelectSession(sessions, student_id, PlanLessonId)
       IN /\ sess # None
          /\ Val(sess).segment_index = Val(lesson_plan_json).segments
          /\ Val(sess).score # None

\* a run of the teach graph that has loaded a complete Session: it is past
\* ensure_session with a score it has not graded itself
ResumedComplete ==
    /\ graph = "teach"
    /\ pc \in {"introduce", "teach", "persist"}
    /\ lesson_plan_json # None
    /\ segment_index = Val(lesson_plan_json).segments
    /\ score # None
    /\ quiz_result = None

\* C34: a run of the teach graph started on a complete Session (segment_index
\* = N, score non-null) goes ensure_session, introduce, teach, persist, END:
\* it teaches no segment, runs no Quiz, Grade or Progress, and leaves the
\* stored rows, so the segment_index, transcript, score and score_max of that
\* Session, as they were.
C34_CompleteSessionRunEndsUnchanged ==
    /\ [][ (StoredSessionComplete /\ runs' = runs) =>
              (ResumedComplete' /\ sessions' = sessions) ]_vars
    /\ [][ (ResumedComplete /\ runs' = runs) =>
              /\ pc' = (IF pc = "introduce" THEN "teach"
                        ELSE IF pc = "teach" THEN "persist" ELSE "END")
              /\ pc = "teach" => done'
              /\ sessions' = sessions
              /\ UNCHANGED <<segment_index, transcript, score, score_max, quiz,
                             student_answers, quiz_result,
                             progression_decision, attempt_number>>
          ]_vars
    /\ [][ ResumedComplete => sessions' = sessions ]_vars

\* a second run has ended on the complete Session of the first
C34_Witness ==
    /\ graph = "teach"
    /\ pc = "END"
    /\ runs = 2
    /\ done
    /\ quiz_result = None
    /\ score # None
    /\ segment_index = Val(lesson_plan_json).segments
    /\ Len(sessions) = 1
    /\ sessions[1].transcript_json = transcript

\* stored rows persist_node may find: without a score, and with one
PersistSamples ==
    { SessionRow(1, "s1", "l1", 0, <<>>, None, None),
      SessionRow(1, "s1", "l1", 1, <<Event("teacher", "t", 0)>>,
                 Some(6), Some(10)) }

\* C35: persist never replaces a stored non-null score or score_max by null,
\* and with a null score in the run state it leaves the stored score and
\* score_max as they are and writes only segment_index and transcript, to
\* the run's row alone.
C35_PersistKeepsStoredScore ==
    /\ [][ (pc = "persist" /\ pc' # pc /\ pc' # "error" /\ runs' = runs) =>
              LET k == SessionIndex(sessions, session_id)
              IN /\ Len(sessions') = Len(sessions)
                 /\ \A i \in 1..Len(sessions) :
                       /\ i # k => sessions'[i] = sessions[i]
                       /\ sessions[i].score # None => sessions'[i].score # None
                       /\ sessions[i].score_max # None =>
                             sessions'[i].score_max # None
                 /\ (k # 0 /\ score = None) =>
                       sessions'[k] =
                         [sessions[k] EXCEPT !.segment_index = segment_index,
                                             !.transcript_json = transcript]
          ]_vars
    /\ [](score = None =>
            \A row \in PersistSamples :
               PersistedRow(row) =
                  [row EXCEPT !.segment_index = segment_index,
                              !.transcript_json = transcript])

\* a segment of a repeated attempt has been persisted with a null score
C35_Witness ==
    /\ graph = "teach"
    /\ pc \in {"teach", "retrieve_quiz_context"}
    /\ score = None
    /\ attempt_number = Some(2)
    /\ segment_index >= 1
    /\ Len(sessions) = 1
    /\ sessions[1].segment_index = segment_index
    /\ sessions[1].transcript_json = transcript
    /\ sessions[1].score = None

\* a persist step writes at most the row of the run's session_id, and that
\* row is the one of the run's student and of the lesson being taught
PersistWritesOwnRow ==
    [][ (pc = "persist" /\ pc' # pc /\ pc' # "error" /\ runs' = runs) =>
          LET k == SessionIndex(sessions, session_id)
          IN /\ Len(sessions') = Len(sessions)
             /\ \A i \in 1..Len(sessions) : i # k => sessions'[i] = sessions[i]
             /\ k # 0 =>
                   /\ sessions'[k].id = sessions[k].id
                   /\ sessions'[k].student_id = student_id
                   /\ sessions'[k].lesson_id = PlanLessonId
                   /\ sessions'[k].lesson_id = lesson_id
      ]_vars

\* C36: every persist step writes only the row whose id is the run's
\* session_id, a row of the run's student and current lesson; and in a
\* course run (the first against its store, so that every scored row is the
\* row of a lesson the run has finished) no step changes the row of an
\* earlier lesson.
C36_PersistWritesOnlyCurrentSession ==
    /\ PersistWritesOwnRow
    /\ [][ (graph = "course" /\ runs = 1 /\ runs' = 1) =>
              \A i \in 1..Len(sessions) :
                 sessions[i].score # None =>
                    (i <= Len(sessions') /\ sessions'[i] = sessions[i]) ]_vars

\* C37: a course run whose Plan step finds current_lesson_index at or past
\* the number of lesson files (a course of no lesson file) sets
\* course_completed and goes to course_complete and END: it does not go
\* through ensure_session, creates no Session and does not end in an error.
C37_EmptyCourseCompletesWithoutSession ==
    /\ [][ (graph = "course" /\ pc = "plan_lesson" /\ runs' = runs
              /\ current_lesson_index >= course_lesson_files) =>
              (course_completed' /\ pc' = "course_complete"
                 /\ sessions' = sessions) ]_vars
    /\ []((graph = "course" /\ course_lesson_files = 0) =>
            (pc \in {"plan_lesson", "course_complete", "END"}
               /\ error = "" /\ sessions = <<>>))

\* the lesson_repeat system events of a transcript, in order
RepeatEvents(tr) ==
    SelectSeq(tr, LAMBDA e : e.role = "system" /\ e.text = "lesson_repeat")

\* C38: in the teach graph, in every state of a run that has its Session
\* (new or resumed), the transcript holds attempt_number - 1 lesson_repeat
\* events and the k-th of them records attempt_number k + 1.
C38_RepeatEventsCountAttempts ==
    (graph = "teach" /\ attempt_number # None) =>
        LET r == RepeatEvents(transcript)
        IN /\ Len(r) = Val(attempt_number) - 1
           /\ \A k \in 1..Len(r) : r[k].n = k + 1

\* the animation thread issues a motion command: the goto_target of a loop
\* iteration or the one back to the neutral position
AnimIssuesMotion ==
    /\ speech.anim \in {"move", "neutral"}
    /\ speech'.anim # speech.anim

\* C39: once say() has returned, the animation thread it started issues no
\* further motion command.
C39_NoMotionAfterSayReturns ==
    [][ speech.say = "returned" => ~AnimIssuesMotion ]_vars

====
